---- MODULE Spec2Model ----
(***************************************************************************)
(* Model of kali_bot.py: the SQLite "members" presence table, the event   *)
(* handlers that upsert into it, and the report / export handlers that    *)
(* read it.                                                                *)
(*                                                                         *)
(* Conventions.  A Python value that may be None is a sequence of length  *)
(* at most one: <<>> is None, <<v>> is the value v.  A text produced by   *)
(* formatting is a sequence as well, so the empty text is <<>>.           *)
(***************************************************************************)
EXTENDS Integers, Sequences, FiniteSets, TLC

VARIABLES table, now, joining, touched, wrote, last

vars == <<table, now, joining, touched, wrote, last>>

-----------------------------------------------------------------------------
(* Bounds of the model *)

\* the clock runs from 1 to MaxTime
MaxTime == 2
\* longest member list handed to the report / export functions in SpecReport
MaxLen == 2
\* longest /cheak argument and button data drawn, in characters
MaxTok == 3
\* largest threshold, in minutes, handed to the report header in SpecHeader
MaxMinutes == 2900
\* longest member list handed to the report in SpecListing
MaxMembers == 32

-----------------------------------------------------------------------------
(* Values *)

None == <<>>
Some(v) == <<v>>
Val(o) == o[1]

\* chats the bot is a member of
Chats == {1, 2}

\* pyrogram User objects delivered by the platform.  User 1 is seen with two
\* different attribute sets (a rename that also flags the account deleted),
\* user 2 is a bot without a username.
UserA == [id |-> 1, username |-> Some("alice"), first_name |-> Some("Alice"),
          last_name |-> Some("A"), is_bot |-> FALSE, is_deleted |-> FALSE]
UserB == [id |-> 1, username |-> None, first_name |-> Some("Al"),
          last_name |-> None, is_bot |-> FALSE, is_deleted |-> TRUE]
UserC == [id |-> 2, username |-> None, first_name |-> Some("Bot"),
          last_name |-> None, is_bot |-> TRUE, is_deleted |-> FALSE]

\* the users the platform reports events of, per chat: both users are in
\* chat 1, only the bot is in chat 2
ChatMembers(chat_id) == IF chat_id = 1 THEN {UserA, UserB, UserC} ELSE {UserC}

\* message.from_user / message.left_chat_member / the user argument
OptUsers(chat_id) == {None} \cup {Some(u) : u \in ChatMembers(chat_id)}

\* the seen_ts argument of upsert_user: left out, or a time before every
\* time the clock shows
SeenTs == {None, Some(0)}

\* message.new_chat_members
JoinLists(chat_id) ==
    IF chat_id = 1 THEN {<<UserA, UserC>>} ELSE {<<UserC>>}

\* x or ""
OrEmpty(o) == IF o = None \/ o = Some("") THEN "" ELSE Val(o)

\* 1 if flag else 0
Int01(b) == IF b THEN 1 ELSE 0

-----------------------------------------------------------------------------
(* The members table: a set of rows *)

KeyOf(r) == <<r.chat_id, r.user_id>>
Keys(tbl) == {KeyOf(r) : r \in tbl}
RowsOf(tbl, chat_id, uid) == {r \in tbl : r.chat_id = chat_id /\ r.user_id = uid}

\* the row upsert_user binds to the INSERT statement
RowFor(chat_id, user, seen_ts, t) ==
    [chat_id    |-> chat_id,
     user_id    |-> user.id,
     username   |-> OrEmpty(user.username),
     first_name |-> OrEmpty(user.first_name),
     last_name  |-> OrEmpty(user.last_name),
     is_bot     |-> Int01(user.is_bot),
     is_deleted |-> Int01(user.is_deleted),
     last_seen  |-> IF seen_ts = None THEN Some(t) ELSE seen_ts]

\* the upsert keeping the later of the stored and the new last_seen
InsertOnConflictUpdate_MaxSeen(tbl, row) ==
    LET old == {r \in tbl : KeyOf(r) = KeyOf(row)}
        seen == IF \E r \in old : Val(r.last_seen) > Val(row.last_seen)
                THEN (CHOOSE r \in old : TRUE).last_seen ELSE row.last_seen
    IN  (tbl \ old) \cup {[row EXCEPT !.last_seen = seen]}

\* a plain INSERT into a table without the primary key
InsertOnConflictUpdate_PlainInsert(tbl, row) == tbl \cup {row}

\* the upsert with the conflict taken on user_id alone
InsertOnConflictUpdate_ByUser(tbl, row) ==
    {r \in tbl : r.user_id # row.user_id} \cup {row}

\* the upsert whose DO UPDATE sets last_seen only
InsertOnConflictUpdate_SeenOnly(tbl, row) ==
    IF \E r \in tbl : KeyOf(r) = KeyOf(row)
    THEN {IF KeyOf(r) = KeyOf(row) THEN [r EXCEPT !.last_seen = row.last_seen] ELSE r
            : r \in tbl}
    ELSE tbl \cup {row}

\* INSERT ... ON CONFLICT(chat_id, user_id) DO UPDATE SET <every column>
InsertOnConflictUpdate(tbl, row) ==
    {r \in tbl : KeyOf(r) # KeyOf(row)} \cup {row}

\* upsert_user without its test of the user: an absent user is written as a
\* row of user id 0 with blank attributes
upsert_user_NoUserTest(tbl, chat_id, user, seen_ts, t, ok) ==
    IF ~ok THEN tbl
    ELSE InsertOnConflictUpdate(tbl,
           RowFor(chat_id,
                  IF user = None
                  THEN [id |-> 0, username |-> None, first_name |-> None,
                        last_name |-> None, is_bot |-> FALSE, is_deleted |-> FALSE]
                  ELSE Val(user),
                  seen_ts, t))

\* upsert_user(chat_id, user, seen_ts) at clock t; ok is FALSE when the
\* statement raises, which is logged and swallowed
upsert_user(tbl, chat_id, user, seen_ts, t, ok) ==
    IF user = None THEN tbl
    ELSE IF ~ok THEN tbl
    ELSE InsertOnConflictUpdate(tbl, RowFor(chat_id, Val(user), seen_ts, t))

\* a leave that removes the record
mark_left_Delete(tbl, chat_id, user, t, ok) ==
    IF user # None /\ ok
    THEN {r \in tbl : KeyOf(r) # <<chat_id, Val(user).id>>} ELSE tbl

\* a leave stamped with a time carried by the event, one second before the
\* handler's clock
mark_left_EventTime(tbl, chat_id, user, t, ok) ==
    IF user # None THEN upsert_user(tbl, chat_id, user, Some(t - 1), t, ok) ELSE tbl

\* mark_left(chat_id, user) at clock t
mark_left(tbl, chat_id, user, t, ok) ==
    IF user # None THEN upsert_user(tbl, chat_id, user, Some(t), t, ok) ELSE tbl

\* the record of a write: its arguments and the rows the key had before it
\* when it was applied; the chat and user id of the logged line when it failed
WriteRecord(op, tbl, chat_id, user, seen_ts, t, ok) ==
    IF user = None THEN [op |-> op, chat_id |-> chat_id, outcome |-> "noop"]
    ELSE IF ~ok THEN [op |-> op, chat_id |-> chat_id, user_id |-> Val(user).id,
                      outcome |-> "failed"]
    ELSE [op |-> op, chat_id |-> chat_id, user_id |-> Val(user).id,
          user |-> Val(user), seen_ts |-> seen_ts, at |-> t,
          prev |-> RowsOf(tbl, chat_id, Val(user).id), outcome |-> "applied"]

\* history: per key, the values the latest applied call bound to its statement
Write(wr, chat_id, user, seen_ts, t, ok) ==
    IF user # None /\ ok
    THEN {w \in wr : KeyOf(w) # <<chat_id, Val(user).id>>}
           \cup {RowFor(chat_id, Val(user), seen_ts, t)}
    ELSE wr

Touch(tch, chat_id, user, ok) ==
    IF user # None /\ ok THEN tch \cup {<<chat_id, Val(user).id>>} ELSE tch

-----------------------------------------------------------------------------
(* Reading the table *)

\* the orders in which a cursor can deliver the rows of S (the SELECT has no
\* ORDER BY)
Orders(S) ==
    {s \in [1..Cardinality(S) -> S] : \A i, j \in DOMAIN s : i # j => s[i] # s[j]}

\* the dict fetch_all_members builds of a row
MemberOf(r) ==
    [user_id    |-> r.user_id,
     username   |-> r.username,
     first_name |-> r.first_name,
     last_name  |-> r.last_name,
     is_bot     |-> r.is_bot # 0,
     is_deleted |-> r.is_deleted # 0,
     last_seen  |-> r.last_seen]

\* the SELECT without its WHERE clause
SelectWhereChat_AllChats(tbl, chat_id) == tbl

\* the rows the SELECT matches: WHERE chat_id = ?
SelectWhereChat(tbl, chat_id) == {r \in tbl : r.chat_id = chat_id}

\* the orders in which the cursor may deliver the rows of a chat
Cursors(tbl, chat_id) == Orders(SelectWhereChat(tbl, chat_id))

\* fetch_all_members with the failure of the SELECT ignored
fetch_all_members_IgnoreFailure(chat_id, ok, cursor) ==
    [i \in DOMAIN cursor |-> MemberOf(cursor[i])]

\* fetch_all_members(chat_id): cursor is the order in which the cursor
\* delivers the matching rows; ok is FALSE when the SELECT raises, which is
\* logged and swallowed, leaving rows = []
fetch_all_members(chat_id, ok, cursor) ==
    LET rows == IF ok THEN cursor ELSE <<>>
    IN  [i \in DOMAIN rows |-> MemberOf(rows[i])]

\* the admin check that lets the request through when the lookup raised
is_chat_admin_FailOpen(status) ==
    IF status = "error" THEN TRUE ELSE status \in {"creator", "administrator"}

\* is_chat_admin: status is the member status get_chat_member returned, or
\* "error" when it raised
is_chat_admin(status) ==
    IF status = "error" THEN FALSE ELSE status \in {"creator", "administrator"}

Statuses == {"administrator", "member", "error"}

\* message.from_user of a command: absent, or some user
Requesters == {None, Some(UserA)}

-----------------------------------------------------------------------------
(* generate_report *)

\* entries listed per bucket
ListLimit == 30

IsBot(m) == m.is_bot
IsDeleted(m) == m.is_deleted
\* IsOnline without the bot test
IsOnline_BotsToo(m, threshold_sec, t) ==
    /\ m.last_seen # None
    /\ t - Val(m.last_seen) <= threshold_sec
    /\ ~m.is_deleted
\* IsOnline with the boundary left out
IsOnline_Strict(m, threshold_sec, t) ==
    /\ m.last_seen # None
    /\ t - Val(m.last_seen) < threshold_sec
    /\ ~m.is_bot
    /\ ~m.is_deleted
IsOnline(m, threshold_sec, t) ==
    /\ m.last_seen # None
    /\ t - Val(m.last_seen) <= threshold_sec
    /\ ~m.is_bot
    /\ ~m.is_deleted
\* IsOffline taking an absent last_seen for a very old one
IsOffline_AbsentIsOld(m, threshold_sec, t) ==
    /\ (m.last_seen = None \/ t - Val(m.last_seen) > threshold_sec)
    /\ ~m.is_bot
    /\ ~m.is_deleted
IsOffline(m, threshold_sec, t) ==
    /\ m.last_seen # None
    /\ t - Val(m.last_seen) > threshold_sec
    /\ ~m.is_bot
    /\ ~m.is_deleted

\* the threshold line of the report: <<number, unit>>
\* the header with the quotient rounded to the nearest unit
ThresholdHeader_Rounded(threshold_minutes) ==
    IF threshold_minutes >= 1440
    THEN <<(threshold_minutes + 720) \div 1440, "Day(s)">>
    ELSE IF threshold_minutes >= 60
    THEN <<(threshold_minutes + 30) \div 60, "Hour(s)">>
    ELSE <<threshold_minutes, "Minutes">>

ThresholdHeader(threshold_minutes) ==
    IF threshold_minutes >= 1440 THEN <<threshold_minutes \div 1440, "Day(s)">>
    ELSE IF threshold_minutes >= 60 THEN <<threshold_minutes \div 60, "Hour(s)">>
    ELSE <<threshold_minutes, "Minutes">>

\* short(u): the display name (username or first_name or user_id) and the id
short(u) ==
    [name |-> IF u.username # "" THEN <<"text", u.username>>
              ELSE IF u.first_name # "" THEN <<"text", u.first_name>>
              ELSE <<"int", u.user_id>>,
     user_id |-> u.user_id]

\* the bucket listed whole
Listing_NoLimit(bucket) ==
    [i \in 1..Len(bucket) |-> short(bucket[i])]

\* bucket[:30], each entry through short
Listing(bucket) ==
    LET n == IF Len(bucket) < ListLimit THEN Len(bucket) ELSE ListLimit
    IN  [i \in 1..n |-> short(bucket[i])]

\* generate_report(threshold_minutes, members) at clock t
generate_report(threshold_minutes, members, t) ==
    LET threshold_sec == threshold_minutes * 60
        On(m)  == IsOnline(m, threshold_sec, t)
        Off(m) == IsOffline(m, threshold_sec, t)
        bots        == SelectSeq(members, IsBot)
        deleted     == SelectSeq(members, IsDeleted)
        online_ish  == SelectSeq(members, On)
        offline_ish == SelectSeq(members, Off)
    IN  [header       |-> ThresholdHeader(threshold_minutes),
         total        |-> Len(members),
         n_online     |-> Len(online_ish),
         n_offline    |-> Len(offline_ish),
         n_bots       |-> Len(bots),
         n_deleted    |-> Len(deleted),
         online_ish   |-> online_ish,
         offline_ish  |-> offline_ish,
         bots         |-> bots,
         deleted      |-> deleted,
         list_online  |-> Listing(online_ish),
         list_offline |-> Listing(offline_ish),
         list_bots    |-> Listing(bots),
         list_deleted |-> Listing(deleted)]

-----------------------------------------------------------------------------
(* The threshold argument of /cheak and of the buttons *)

Digits == <<"0", "1", "2", "3", "4", "5", "6", "7", "8", "9">>
IsDigit(c) == \E i \in DOMAIN Digits : Digits[i] = c
DigitVal(c) == (CHOOSE i \in DOMAIN Digits : Digits[i] = c) - 1

RECURSIVE DecVal(_)
DecVal(s) ==
    IF s = <<>> THEN 0
    ELSE DecVal(SubSeq(s, 1, Len(s) - 1)) * 10 + DigitVal(s[Len(s)])

\* int(s): None when it raises ValueError
PyInt(s) ==
    LET signed == s # <<>> /\ s[1] \in {"-", "+"}
        body   == IF signed THEN Tail(s) ELSE s
    IN  IF body = <<>> \/ \E i \in DOMAIN body : ~IsDigit(body[i]) THEN None
        ELSE IF signed /\ s[1] = "-" THEN Some(0 - DecVal(body))
        ELSE Some(DecVal(body))

\* the parsing of parts[1] without arg.lower()
ParseThreshold_CaseSensitive(token) ==
    LET arg == token
        n   == IF arg # <<>> /\ arg[Len(arg)] = "d"
               THEN PyInt(SubSeq(arg, 1, Len(arg) - 1))
               ELSE PyInt(arg)
    IN  IF n = None THEN 30
        ELSE IF arg # <<>> /\ arg[Len(arg)] = "d" THEN Val(n) * 1440
        ELSE Val(n)

\* str.lower() on the characters of the model
Lower(s) == [i \in DOMAIN s |-> IF s[i] = "D" THEN "d" ELSE s[i]]

\* the parsing of parts[1] in cmd_cheak
ParseThreshold(token) ==
    LET arg == Lower(token)
        n   == IF arg # <<>> /\ arg[Len(arg)] = "d"
               THEN PyInt(SubSeq(arg, 1, Len(arg) - 1))
               ELSE PyInt(arg)
    IN  IF n = None THEN 30
        ELSE IF arg # <<>> /\ arg[Len(arg)] = "d" THEN Val(n) * 1440
        ELSE Val(n)

\* int(callback.data.split("_")[1]) in cb_threshold, 30 when it raises;
\* data is the part of callback.data after "th_"
ParseButton(data) ==
    LET n == PyInt(data) IN IF n = None THEN 30 ELSE Val(n)

\* message.text.split() of the /cheak messages the model sends: the command
\* alone, and with an argument
CheakCmd == <<"/", "c", "h", "e", "a", "k">>
CheakTexts ==
    {<<CheakCmd>>, <<CheakCmd, <<"0">>>>}

\* the callback data of the buttons, after "th_"
ButtonData == {<<"3", "0">>, <<"1", "4", "4", "0">>}

-----------------------------------------------------------------------------
(* The export *)

\* "" as a formatted text
EmptyText == <<>>

\* datetime.utcfromtimestamp(ts).isoformat(), for ts within January 1970:
\* YYYY-MM-DDTHH:MM:SS as its six numbers
IsoFormat(ts) ==
    <<1970, 1, 1 + (ts \div 86400), (ts % 86400) \div 3600,
      (ts % 3600) \div 60, ts % 60>>

\* truth value of m["last_seen"]
Truthy(o) == o # None /\ Val(o) # 0

\* the iso column of a member
IsoOf(m) == IF Truthy(m.last_seen) THEN IsoFormat(Val(m.last_seen)) ELSE EmptyText

\* the rows cmd_export writes after the header row
export_rows(members) ==
    [i \in DOMAIN members |->
        [user_id       |-> members[i].user_id,
         username      |-> members[i].username,
         first_name    |-> members[i].first_name,
         last_name     |-> members[i].last_name,
         is_bot        |-> Int01(members[i].is_bot),
         is_deleted    |-> Int01(members[i].is_deleted),
         last_seen_iso |-> IsoOf(members[i])]]

-----------------------------------------------------------------------------
(* Initial state: a fresh members.db *)

Idle == <<>>

Init ==
    /\ table = {}
    /\ now = 1
    /\ joining = Idle
    /\ touched = {}
    /\ wrote = {}
    /\ last = [op |-> "start"]

(* The clock *)
Tick ==
    /\ now < MaxTime
    /\ now' = now + 1
    /\ UNCHANGED <<table, joining, touched, wrote, last>>

(* A direct call upsert_user(chat_id, user, seen_ts) *)
UpsertUser ==
    \E chat_id \in Chats, seen_ts \in SeenTs, ok \in BOOLEAN :
      \E user \in OptUsers(chat_id) :
        /\ table' = upsert_user(table, chat_id, user, seen_ts, now, ok)
        /\ touched' = Touch(touched, chat_id, user, ok)
        /\ wrote' = Write(wrote, chat_id, user, seen_ts, now, ok)
        /\ last' = WriteRecord("upsert_user", table, chat_id, user, seen_ts, now, ok)
        /\ UNCHANGED <<now, joining>>

(* message_logger: any group message *)
MessageLogger ==
    \E chat_id \in Chats, ok \in BOOLEAN :
      \E from_user \in OptUsers(chat_id) :
        /\ table' = IF from_user # None
                    THEN upsert_user(table, chat_id, from_user, Some(now), now, ok)
                    ELSE table
        /\ touched' = Touch(touched, chat_id, from_user, ok)
        /\ wrote' = Write(wrote, chat_id, from_user, Some(now), now, ok)
        /\ last' = WriteRecord("message_logger", table, chat_id, from_user, Some(now), now, ok)
        /\ UNCHANGED <<now, joining>>

(* left_member_handler *)
LeftMemberHandler ==
    \E chat_id \in Chats, ok \in BOOLEAN :
      \E left_chat_member \in OptUsers(chat_id) :
        /\ table' = IF left_chat_member # None
                    THEN mark_left(table, chat_id, left_chat_member, now, ok)
                    ELSE table
        /\ touched' = Touch(touched, chat_id, left_chat_member, ok)
        /\ wrote' = Write(wrote, chat_id, left_chat_member, Some(now), now, ok)
        /\ last' = WriteRecord("left_member_handler", table, chat_id, left_chat_member,
                               Some(now), now, ok)
        /\ UNCHANGED <<now, joining>>

(* new_member_handler: one loop iteration upserts a user and then awaits      *)
(* client.get_me(); other handlers run while it waits.  joining holds the     *)
(* chat, the users of the event, the users the loop has not reached yet and   *)
(* whether every statement of the loop went through so far; after the last    *)
(* user the handler changes no state any more, so it is over.                 *)
JoinState(chat_id, users, rest, db_ok) ==
    IF rest = <<>> THEN Idle
    ELSE [chat_id |-> chat_id, users |-> users, rest |-> rest, db_ok |-> db_ok]

NewMemberHandler ==
    \E chat_id \in Chats, ok \in BOOLEAN :
      \E new_chat_members \in JoinLists(chat_id) :
        /\ joining = Idle
        /\ table' = upsert_user(table, chat_id, Some(Head(new_chat_members)),
                                Some(now), now, ok)
        /\ touched' = Touch(touched, chat_id, Some(Head(new_chat_members)), ok)
        /\ wrote' = Write(wrote, chat_id, Some(Head(new_chat_members)), Some(now), now, ok)
        /\ last' = WriteRecord("new_member_handler", table, chat_id,
                               Some(Head(new_chat_members)), Some(now), now, ok)
        /\ joining' = JoinState(chat_id, new_chat_members, Tail(new_chat_members), ok)
        /\ UNCHANGED now

(* get_me() returns: the loop goes on with the next user *)
GetMeReturns ==
    \E ok \in BOOLEAN :
        /\ joining # Idle
        /\ table' = upsert_user(table, joining.chat_id, Some(Head(joining.rest)),
                                Some(now), now, ok)
        /\ touched' = Touch(touched, joining.chat_id, Some(Head(joining.rest)), ok)
        /\ wrote' = Write(wrote, joining.chat_id, Some(Head(joining.rest)), Some(now), now, ok)
        /\ last' = WriteRecord("new_member_handler", table, joining.chat_id,
                               Some(Head(joining.rest)), Some(now), now, ok)
        /\ joining' = JoinState(joining.chat_id, joining.users, Tail(joining.rest),
                                joining.db_ok /\ ok)
        /\ UNCHANGED now

(* get_me() raises: the handler's outer except ends the loop *)
GetMeRaises ==
    /\ joining # Idle
    /\ joining' = Idle
    /\ UNCHANGED <<table, now, touched, wrote, last>>

(* /cheak *)
CmdCheak ==
    \E chat_id \in Chats, from_user \in Requesters :
        /\ IF from_user = None
           THEN last' = [op |-> "cmd_cheak", chat_id |-> chat_id, outcome |-> "no_user"]
           ELSE \E status \in Statuses :
             IF ~is_chat_admin(status)
             THEN last' = [op |-> "cmd_cheak", chat_id |-> chat_id, outcome |-> "denied",
                          status |-> status]
             ELSE \E parts \in CheakTexts :
               IF Len(parts) < 2
               THEN last' = [op |-> "cmd_cheak", chat_id |-> chat_id, outcome |-> "menu",
                            status |-> status]
               ELSE \E ok \in BOOLEAN : \E cursor \in Cursors(table, chat_id) :
                 LET threshold_minutes == ParseThreshold(parts[2])
                     members == fetch_all_members(chat_id, ok, cursor)
                 IN  last' =
                       IF members = <<>>
                       THEN [op |-> "cmd_cheak", chat_id |-> chat_id,
                             outcome |-> "no_data", status |-> status, fetch_ok |-> ok,
                             members |-> members]
                       ELSE [op |-> "cmd_cheak", chat_id |-> chat_id,
                             outcome |-> "report", status |-> status, fetch_ok |-> ok,
                             members |-> members,
                             threshold_minutes |-> threshold_minutes, at |-> now,
                             report |-> generate_report(threshold_minutes, members, now)]
        /\ UNCHANGED <<table, now, joining, touched, wrote>>

(* a threshold button *)
CbThreshold ==
    \E chat_id \in Chats, status \in Statuses :
        /\ IF ~is_chat_admin(status)
           THEN last' = [op |-> "cb_threshold", chat_id |-> chat_id, outcome |-> "denied",
                          status |-> status]
           ELSE \E data \in ButtonData, ok \in BOOLEAN :
             \E cursor \in Cursors(table, chat_id) :
             LET minutes == ParseButton(data)
                 members == fetch_all_members(chat_id, ok, cursor)
             IN  last' =
                   IF members = <<>>
                   THEN [op |-> "cb_threshold", chat_id |-> chat_id,
                         outcome |-> "no_data", status |-> status, fetch_ok |-> ok, members |-> members]
                   ELSE [op |-> "cb_threshold", chat_id |-> chat_id,
                         outcome |-> "report", status |-> status, fetch_ok |-> ok, members |-> members,
                         threshold_minutes |-> minutes, at |-> now,
                         report |-> generate_report(minutes, members, now)]
        /\ UNCHANGED <<table, now, joining, touched, wrote>>

(* /export; file_ok is FALSE when writing or sending the file raises *)
CmdExport ==
    \E chat_id \in Chats, from_user \in Requesters :
        /\ IF from_user = None
           THEN last' = [op |-> "cmd_export", chat_id |-> chat_id, outcome |-> "no_user"]
           ELSE \E status \in Statuses :
             IF ~is_chat_admin(status)
             THEN last' = [op |-> "cmd_export", chat_id |-> chat_id, outcome |-> "denied",
                          status |-> status]
             ELSE \E ok \in BOOLEAN, file_ok \in BOOLEAN :
               \E cursor \in Cursors(table, chat_id) :
               LET members == fetch_all_members(chat_id, ok, cursor)
               IN  last' =
                     IF members = <<>>
                     THEN [op |-> "cmd_export", chat_id |-> chat_id,
                           outcome |-> "no_data", status |-> status, fetch_ok |-> ok, members |-> members]
                     ELSE IF ~file_ok
                     THEN [op |-> "cmd_export", chat_id |-> chat_id,
                           outcome |-> "export_failed", status |-> status, fetch_ok |-> ok,
                           members |-> members]
                     ELSE [op |-> "cmd_export", chat_id |-> chat_id,
                           outcome |-> "exported", status |-> status, fetch_ok |-> ok,
                           members |-> members, rows |-> export_rows(members)]
        /\ UNCHANGED <<table, now, joining, touched, wrote>>

Next ==
    \/ Tick
    \/ UpsertUser
    \/ MessageLogger
    \/ LeftMemberHandler
    \/ NewMemberHandler
    \/ GetMeReturns
    \/ GetMeRaises
    \/ CmdCheak
    \/ CbThreshold
    \/ CmdExport

Spec == Init /\ [][Next]_vars

-----------------------------------------------------------------------------
(* The event handlers alone: activity, join and leave events, each stamped  *)
(* with the handler's clock, and no other caller of upsert_user.            *)

NextHandlers ==
    \/ Tick
    \/ MessageLogger
    \/ LeftMemberHandler
    \/ NewMemberHandler
    \/ GetMeReturns
    \/ GetMeRaises

SpecHandlers == Init /\ [][NextHandlers]_vars

-----------------------------------------------------------------------------
(* generate_report and the export rows as functions of their arguments:     *)
(* the member list, the threshold and the clock are drawn at the start and  *)
(* the function is applied to them.                                         *)

\* member dicts: both flags free, last_seen absent, 0 or 1
ReportMembers ==
    {[user_id    |-> i,
      username   |-> IF i = 1 THEN "alice" ELSE "",
      first_name |-> IF i = 1 THEN "Alice" ELSE "Bot",
      last_name  |-> "",
      is_bot     |-> b,
      is_deleted |-> d,
      last_seen  |-> ls] :
        i \in {1, 2}, b \in BOOLEAN, d \in BOOLEAN, ls \in {None, Some(0), Some(1)}}

\* member lists of up to MaxLen dicts
ReportLists == UNION {[1..n -> ReportMembers] : n \in 0..MaxLen}

\* thresholds in minutes, and clock values around threshold * 60
ReportThresholds == {1, 60}
ReportNows == {60, 61, 3600, 3601}

InitReport ==
    /\ table = {}
    /\ joining = Idle
    /\ touched = {}
    /\ wrote = {}
    /\ now \in ReportNows
    /\ \E members \in ReportLists, threshold_minutes \in ReportThresholds :
         last = [op |-> "input", members |-> members,
                 threshold_minutes |-> threshold_minutes]

GenerateReport ==
    /\ last.op = "input"
    /\ last' = [op |-> "generate_report", outcome |-> "report",
                members |-> last.members,
                threshold_minutes |-> last.threshold_minutes, at |-> now,
                report |-> generate_report(last.threshold_minutes, last.members, now)]
    /\ UNCHANGED <<table, now, joining, touched, wrote>>

ExportRows ==
    /\ last.op = "input"
    /\ last' = [op |-> "export_rows", outcome |-> "exported",
                members |-> last.members, rows |-> export_rows(last.members)]
    /\ UNCHANGED <<table, now, joining, touched, wrote>>

NextReport ==
    \/ GenerateReport
    \/ ExportRows

SpecReport == InitReport /\ [][NextReport]_vars

-----------------------------------------------------------------------------
(* The threshold parsing as a function of its token: a token is drawn at    *)
(* the start and parsed as a /cheak argument or as button data.             *)

TokenChars == {"0", "2", "4", "5", "d", "D", "-", "b"}

Bogus == <<"b", "o", "g", "u", "s">>

\* the non-empty texts of at most MaxTok characters, and "bogus"
Tokens ==
    UNION {[1..n -> TokenChars] : n \in 1..MaxTok} \cup {Bogus}

InitParse ==
    /\ table = {}
    /\ joining = Idle
    /\ touched = {}
    /\ wrote = {}
    /\ now = 1
    /\ \E token \in Tokens : last = [op |-> "token", token |-> token]

ParseArg ==
    /\ last.op = "token"
    /\ last' = [op |-> "cmd_cheak_arg", token |-> last.token,
                threshold_minutes |-> ParseThreshold(last.token)]
    /\ UNCHANGED <<table, now, joining, touched, wrote>>

ParseData ==
    /\ last.op = "token"
    /\ last' = [op |-> "cb_threshold_data", token |-> last.token,
                threshold_minutes |-> ParseButton(last.token)]
    /\ UNCHANGED <<table, now, joining, touched, wrote>>

NextParse ==
    \/ ParseArg
    \/ ParseData

SpecParse == InitParse /\ [][NextParse]_vars

-----------------------------------------------------------------------------
(* The report header as a function of the threshold: a threshold is drawn   *)
(* at the start and a report of no members is generated for it.             *)

\* the integers a parsed threshold can be, up to MaxMinutes
HeaderThresholds == (0 - MaxMinutes)..MaxMinutes

InitHeader ==
    /\ table = {}
    /\ joining = Idle
    /\ touched = {}
    /\ wrote = {}
    /\ now = 1
    /\ \E threshold_minutes \in HeaderThresholds :
         last = [op |-> "input", members |-> <<>>,
                 threshold_minutes |-> threshold_minutes]

NextHeader == GenerateReport

SpecHeader == InitHeader /\ [][NextHeader]_vars

-----------------------------------------------------------------------------
(* The listings of the report as a function of the member list: a list of   *)
(* up to MaxMembers members is drawn at the start, longer than the 30       *)
(* entries a listing shows, and a report is generated for it.               *)

\* the clock of these reports and their threshold of one minute
ListingNow == 100
ListingThreshold == 1

ListingKinds == {"online", "offline", "bots", "deleted", "mixed"}

\* the i-th member of a list of a kind: ids not in ascending order; a
\* username, a first name only, or no name at all in turn; "mixed" takes the
\* four kinds in turn
ListingMember(i, kind) ==
    LET k == IF kind # "mixed" THEN kind
             ELSE IF i % 4 = 0 THEN "online" ELSE IF i % 4 = 1 THEN "offline"
             ELSE IF i % 4 = 2 THEN "bots" ELSE "deleted"
    IN  [user_id    |-> IF i % 2 = 0 THEN i ELSE 100 + i,
         username   |-> IF i % 3 = 0 THEN "alice" ELSE "",
         first_name |-> IF i % 3 = 2 THEN "" ELSE "Al",
         last_name  |-> "",
         is_bot     |-> k = "bots",
         is_deleted |-> k = "deleted",
         last_seen  |-> IF k = "offline" THEN Some(0) ELSE Some(ListingNow)]

ListingLists ==
    {[i \in 1..n |-> ListingMember(i, kind)] : n \in 0..MaxMembers, kind \in ListingKinds}

InitListing ==
    /\ table = {}
    /\ joining = Idle
    /\ touched = {}
    /\ wrote = {}
    /\ now = ListingNow
    /\ \E members \in ListingLists :
         last = [op |-> "input", members |-> members,
                 threshold_minutes |-> ListingThreshold]

NextListing == GenerateReport

SpecListing == InitListing /\ [][NextListing]_vars

-----------------------------------------------------------------------------
(* Properties of the report *)

InSeq(x, seq) == \E i \in DOMAIN seq : seq[i] = x

\* the state holds a report (of /cheak, of a button, or of generate_report)
Reported == last.op \in {"cmd_cheak", "cb_threshold", "generate_report"}
            /\ last.outcome = "report"

\* the number of the four buckets that hold m
BucketsHolding(m) ==
    Int01(InSeq(m, last.report.bots)) + Int01(InSeq(m, last.report.deleted))
    + Int01(InSeq(m, last.report.online_ish)) + Int01(InSeq(m, last.report.offline_ish))

\* C4: the four buckets bots, deleted, online and offline of a report are
\* pairwise disjoint: no member is in more than one of them, and the four
\* counts together never exceed the total.
C4_BucketsDisjoint ==
    Reported =>
        /\ \A i \in DOMAIN last.members : BucketsHolding(last.members[i]) <= 1
        /\ last.report.n_bots + last.report.n_deleted + last.report.n_online
           + last.report.n_offline <= last.report.total

\* C5: a member with is_bot set is in the bots bucket, and in neither the
\* online nor the offline bucket, whatever its is_deleted flag and last_seen.
C5_BotsAreBots ==
    Reported =>
        \A i \in DOMAIN last.members :
            LET m == last.members[i] IN
            m.is_bot =>
                /\ InSeq(m, last.report.bots)
                /\ ~InSeq(m, last.report.online_ish)
                /\ ~InSeq(m, last.report.offline_ish)
                /\ last.report.n_bots >= 1

\* a report over a bot that is also flagged deleted and was seen within the
\* threshold
C5_Witness ==
    /\ Reported
    /\ \E i \in DOMAIN last.members :
        LET m == last.members[i] IN
        /\ m.is_bot /\ m.is_deleted /\ m.last_seen # None
        /\ last.at - Val(m.last_seen) <= last.threshold_minutes * 60
        /\ InSeq(m, last.report.bots)

\* C6: a member that is neither bot nor deleted and has a last_seen is online
\* exactly when now - last_seen <= threshold_minutes * 60, and offline
\* exactly when now - last_seen > threshold_minutes * 60.
C6_OnlineBoundary ==
    Reported =>
        \A i \in DOMAIN last.members :
            LET m == last.members[i] IN
            (~m.is_bot /\ ~m.is_deleted /\ m.last_seen # None) =>
                /\ InSeq(m, last.report.online_ish)
                     <=> (last.at - Val(m.last_seen) <= last.threshold_minutes * 60)
                /\ InSeq(m, last.report.offline_ish)
                     <=> (last.at - Val(m.last_seen) > last.threshold_minutes * 60)

\* threshold 60: a member seen 3600 s ago is online, one seen 3601 s ago is
\* offline, in the same report
C6_Witness ==
    /\ Reported
    /\ last.threshold_minutes = 60
    /\ \E i, j \in DOMAIN last.members :
        LET m == last.members[i]
            n == last.members[j] IN
        /\ ~m.is_bot /\ ~m.is_deleted /\ m.last_seen # None
        /\ last.at - Val(m.last_seen) = 3600
        /\ InSeq(m, last.report.online_ish) /\ last.report.n_online = 1
        /\ ~n.is_bot /\ ~n.is_deleted /\ n.last_seen # None
        /\ last.at - Val(n.last_seen) = 3601
        /\ InSeq(n, last.report.offline_ish) /\ last.report.n_offline = 1

\* C7: a member that is neither bot nor deleted and has no last_seen is in
\* none of the four buckets, and is counted in the total.
C7_AbsentLastSeen ==
    Reported =>
        /\ last.report.total = Len(last.members)
        /\ \A i \in DOMAIN last.members :
            LET m == last.members[i] IN
            (~m.is_bot /\ ~m.is_deleted /\ m.last_seen = None) =>
                BucketsHolding(m) = 0

\* a report over a single member without last_seen: total 1, every bucket
\* empty
C7_Witness ==
    /\ Reported
    /\ Len(last.members) = 1
    /\ ~last.members[1].is_bot /\ ~last.members[1].is_deleted
    /\ last.members[1].last_seen = None
    /\ last.report.total = 1
    /\ last.report.n_online + last.report.n_offline
       + last.report.n_bots + last.report.n_deleted = 0

-----------------------------------------------------------------------------
(* Properties of the store *)

WriteOps == {"upsert_user", "message_logger", "left_member_handler",
             "new_member_handler"}

\* the last operation was a write whose statement was executed
Applied == last.op \in WriteOps /\ last.outcome = "applied"

\* the row a write of user at seen_ts / clock t must leave for the key
Written(r, chat_id, user, seen_ts, t) ==
    /\ r.chat_id = chat_id
    /\ r.user_id = user.id
    /\ r.username = (IF user.username = None THEN "" ELSE Val(user.username))
    /\ r.first_name = (IF user.first_name = None THEN "" ELSE Val(user.first_name))
    /\ r.last_name = (IF user.last_name = None THEN "" ELSE Val(user.last_name))
    /\ r.is_bot = (IF user.is_bot THEN 1 ELSE 0)
    /\ r.is_deleted = (IF user.is_deleted THEN 1 ELSE 0)
    /\ r.last_seen = (IF seen_ts = None THEN Some(t) ELSE seen_ts)

\* C1: after an upsert of a key has been applied, the table holds exactly one
\* row of that key and every field of it is the one that upsert carried,
\* whatever the row held before and however its seen_ts compares with the
\* stored last_seen.
C1_LastWriteWins ==
    Applied =>
        /\ Cardinality(RowsOf(table, last.chat_id, last.user_id)) = 1
        /\ \A r \in RowsOf(table, last.chat_id, last.user_id) :
              Written(r, last.chat_id, last.user, last.seen_ts, last.at)

\* a second upsert_user of a key, with other attributes and a seen_ts before
\* the stored last_seen, has replaced the row
C1_Witness ==
    /\ Applied
    /\ last.op = "upsert_user"
    /\ last.seen_ts = Some(0)
    /\ \E p \in last.prev :
        /\ Val(p.last_seen) > 0
        /\ p.username # "" /\ last.user.username = None
        /\ p.is_deleted = 0 /\ last.user.is_deleted
    /\ \E r \in table :
        /\ KeyOf(r) = <<last.chat_id, last.user_id>>
        /\ r.last_seen = Some(0) /\ r.username = "" /\ r.is_deleted = 1

\* C2: the table never holds two rows of one (chat_id, user_id), and holds
\* exactly one row of every pair an event has been applied for.
C2_OneRowPerKey ==
    /\ \A r1, r2 \in table : KeyOf(r1) = KeyOf(r2) => r1 = r2
    /\ \A k \in touched : Cardinality(RowsOf(table, k[1], k[2])) = 1

\* every key of the model has had events applied, the last one a leave of a
\* key that already had a row with other values
C2_Witness ==
    /\ Cardinality(touched) = 3
    /\ Cardinality(table) = 3
    /\ Applied
    /\ last.op = "left_member_handler"
    /\ \E p \in last.prev : p \notin table

\* a step of left_member_handler whose statement was executed: the steps that
\* leave last alone change the clock or end a join
LeaveStep ==
    /\ last'.op = "left_member_handler"
    /\ last'.outcome = "applied"
    /\ now' = now
    /\ joining' = joining

\* C3: a row is never removed: the keys of the table only grow; and an
\* applied leave keeps the row of its key, with the fields of the user that
\* left and last_seen set to the time of the leave.
C3_NeverDeleted ==
    [][ /\ Keys(table) \subseteq Keys(table')
        /\ LeaveStep =>
             /\ Keys(table') = Keys(table) \cup {<<last'.chat_id, last'.user_id>>}
             /\ \E r \in table' :
                  Written(r, last'.chat_id, last'.user, Some(now), now)
      ]_vars

\* a leave has been applied to a key that had a row: the row is still there
\* and carries the time of the leave
C3_Witness ==
    /\ Applied
    /\ last.op = "left_member_handler"
    /\ \E p \in last.prev : p.last_seen # Some(last.at)
    /\ \E r \in table :
        /\ KeyOf(r) = <<last.chat_id, last.user_id>>
        /\ r.last_seen = Some(last.at)

-----------------------------------------------------------------------------
(* Properties of the snapshot and of the export *)

ReadOps == {"cmd_cheak", "cb_threshold", "cmd_export"}

\* the last operation read a snapshot
Fetched == last.op \in ReadOps
           /\ last.outcome \in {"no_data", "report", "export_failed", "exported"}

\* a comes no later than b in canonical order: last_seen descending, absent
\* last_seen last, ties by user_id ascending
Precedes(a, b) ==
    IF a.last_seen = None
    THEN b.last_seen = None /\ a.user_id <= b.user_id
    ELSE \/ b.last_seen = None
         \/ Val(a.last_seen) > Val(b.last_seen)
         \/ Val(a.last_seen) = Val(b.last_seen) /\ a.user_id <= b.user_id

IsCanonical(seq) == \A i, j \in DOMAIN seq : i < j => Precedes(seq[i], seq[j])

\* sub keeps the relative order of seq
RECURSIVE IsSubseq(_, _)
IsSubseq(sub, seq) ==
    IF sub = <<>> THEN TRUE
    ELSE IF seq = <<>> THEN FALSE
    ELSE IF Head(sub) = Head(seq) THEN IsSubseq(Tail(sub), Tail(seq))
    ELSE IsSubseq(sub, Tail(seq))

C9_IsoEmptyIffAbsent ==
    (last.op \in {"cmd_export", "export_rows"} /\ last.outcome = "exported") =>
        \A i \in DOMAIN last.rows :
            (last.rows[i].last_seen_iso = EmptyText)
                <=> (last.members[i].last_seen = None)

\* the last operation read a snapshot and its SELECT raised
ReadFailed == Fetched /\ ~last.fetch_ok

-----------------------------------------------------------------------------
(* Frame of a write *)

\* the rows of tbl of every key but <<chat_id, uid>>
OtherRows(tbl, chat_id, uid) == {r \in tbl : KeyOf(r) # <<chat_id, uid>>}

\* C11: a step that applies an upsert of key (c, u) leaves the row of every
\* other key as it was, and every other step leaves the whole table as it
\* was, however the events of the chats and users interleave.
C11_OtherKeysUnchanged ==
    [][ IF last'.op \in WriteOps /\ last'.outcome = "applied"
        THEN OtherRows(table', last'.chat_id, last'.user_id)
               = OtherRows(table, last'.chat_id, last'.user_id)
        ELSE table' = table
      ]_vars

\* an upsert has been applied while a join of the other users is in flight
\* and the table holds rows of two other keys, one of the same user in the
\* other chat
C11_Witness ==
    /\ Applied
    /\ joining # Idle
    /\ Cardinality(OtherRows(table, last.chat_id, last.user_id)) = 2
    /\ \E r \in table : r.user_id = last.user_id /\ r.chat_id # last.chat_id

-----------------------------------------------------------------------------
(* Reads among the writes *)

\* C12: under any interleaving of the handlers' writes with report and export
\* requests, every record of a snapshot of a chat carries the user id and all
\* six attributes that one single applied upsert call of that chat bound to
\* its statement; no record mixes the fields of two calls.
C12_WholeRecords ==
    (Fetched /\ last.fetch_ok) =>
        \A i \in DOMAIN last.members :
            \E w \in wrote : /\ w.chat_id = last.chat_id
                             /\ last.members[i] = MemberOf(w)

\* a snapshot taken between two upserts of a join in flight holds the records
\* of two keys, one of them written with the attributes of the deleted account
C12_Witness ==
    /\ Fetched /\ last.fetch_ok
    /\ joining # Idle
    /\ Len(last.members) = 2
    /\ \E i \in DOMAIN last.members :
         /\ last.members[i].user_id = UserA.id
         /\ last.members[i].is_deleted
         /\ last.members[i].last_seen = Some(MaxTime)

-----------------------------------------------------------------------------
(* The absent user *)

\* a write was called with no user
NoUser == last.op \in WriteOps /\ last.outcome = "noop"

\* C13: a call of upsert_user (directly, or by a handler or mark_left) with an
\* absent user leaves every row of every chat as it was and ends without an
\* error: nothing is written and no failure is logged.
C13_AbsentUserNoOp ==
    [][ (last'.op \in WriteOps /\ last'.outcome = "noop") => table' = table ]_vars

\* upsert_user has been called directly without a user on a table that holds
\* rows of both chats
C13_Witness ==
    /\ NoUser
    /\ last.op = "upsert_user"
    /\ {r.chat_id : r \in table} = Chats

-----------------------------------------------------------------------------
(* Properties of the threshold parsing *)

\* an optional minus sign and then one decimal digit or more
IsInteger(s) ==
    LET body == IF s # <<>> /\ s[1] = "-" THEN Tail(s) ELSE s
    IN  body # <<>> /\ \A i \in DOMAIN body : body[i] \in {Digits[k] : k \in DOMAIN Digits}

RECURSIVE Horner(_, _)
Horner(acc, s) ==
    IF s = <<>> THEN acc ELSE Horner(acc * 10 + DigitVal(s[1]), Tail(s))

\* the number an integer text denotes
IntegerOf(s) == IF s[1] = "-" THEN 0 - Horner(0, Tail(s)) ELSE Horner(0, s)

-----------------------------------------------------------------------------
(* Properties of the report header *)

\* q is the floor of n / unit
IsFloor(q, n, unit) == q * unit <= n /\ n < (q + 1) * unit

\* C15: the header of a report shows the threshold in the largest unit that
\* applies, the quotient rounded down: from 1440 minutes on the whole days,
\* from 60 minutes on the whole hours, below 60 the minutes themselves; 1439
\* shows 23 Hour(s), 1440 shows 1 Day(s), 59 shows 59 Minutes, 90 shows
\* 1 Hour(s).
C15_HeaderFloor ==
    last.op = "generate_report" =>
        LET threshold_minutes == last.threshold_minutes
            header == last.report.header
        IN  /\ threshold_minutes >= 1440 =>
                 header[2] = "Day(s)" /\ IsFloor(header[1], threshold_minutes, 1440)
            /\ (threshold_minutes >= 60 /\ threshold_minutes < 1440) =>
                 header[2] = "Hour(s)" /\ IsFloor(header[1], threshold_minutes, 60)
            /\ threshold_minutes < 60 => header = <<threshold_minutes, "Minutes">>
            /\ threshold_minutes = 1439 => header = <<23, "Hour(s)">>
            /\ threshold_minutes = 1440 => header = <<1, "Day(s)">>
            /\ threshold_minutes = 59 => header = <<59, "Minutes">>
            /\ threshold_minutes = 90 => header = <<1, "Hour(s)">>

\* a report for 1439 minutes has been generated, one minute short of a day
C15_Witness ==
    /\ last.op = "generate_report"
    /\ last.threshold_minutes = 1439
    /\ last.report.header = <<23, "Hour(s)">>

-----------------------------------------------------------------------------
(* Properties of the join *)

\* the step ends the handling of a join event none of whose statements failed
JoinHandled ==
    /\ joining # Idle
    /\ joining' = Idle
    /\ joining.db_ok
    /\ ~(last'.op = "new_member_handler" /\ last'.outcome = "failed")

\* C16: when the handling of a join event listing several users ends and no
\* statement of it failed, every listed user has a row in the chat of the
\* event, whatever get_me() and the other handlers did in between.
C16_AllListedRecorded ==
    [][ JoinHandled =>
          \A i \in DOMAIN joining.users :
              <<joining.chat_id, joining.users[i].id>> \in Keys(table')
      ]_vars

-----------------------------------------------------------------------------
(* Properties of the listings *)

\* what an entry shows for a member: the username if it has one, else the
\* first name if it has one, else the user id; and then the user id
Shown(m) ==
    [name |-> IF m.username # "" THEN <<"text", m.username>>
              ELSE IF m.first_name # "" THEN <<"text", m.first_name>>
              ELSE <<"int", m.user_id>>,
     user_id |-> m.user_id]

\* listing shows the first min(30, size) members of bucket, in its order, and
\* count is the size of the whole bucket
ListsFirst(listing, bucket, count) ==
    /\ Len(listing) = (IF Len(bucket) <= 30 THEN Len(bucket) ELSE 30)
    /\ \A i \in DOMAIN listing : listing[i] = Shown(bucket[i])
    /\ count = Len(bucket)

\* C17: in a report each bucket lists its first min(30, size) members, in the
\* order of the bucket, while its count line gives the size of the whole
\* bucket; an entry shows the username if non-empty, else the first_name if
\* non-empty, else the user_id, and then the user_id.
C17_ListingsFirstThirty ==
    Reported =>
        LET r == last.report
        IN  /\ ListsFirst(r.list_online, r.online_ish, r.n_online)
            /\ ListsFirst(r.list_offline, r.offline_ish, r.n_offline)
            /\ ListsFirst(r.list_bots, r.bots, r.n_bots)
            /\ ListsFirst(r.list_deleted, r.deleted, r.n_deleted)

\* a report of a bucket of more than 30 members has been generated, whose
\* listing has entries of the three ways of showing a member
C17_Witness ==
    /\ Reported
    /\ Len(last.report.bots) > ListLimit
    /\ last.report.n_bots > ListLimit
    /\ Len(last.report.list_bots) = ListLimit
    /\ \E i, j, k \in DOMAIN last.report.list_bots :
         /\ last.report.list_bots[i].name = <<"text", "alice">>
         /\ last.report.list_bots[j].name = <<"text", "Al">>
         /\ last.report.list_bots[k].name[1] = "int"

-----------------------------------------------------------------------------
(* Properties of the admin check *)

\* the state holds the outcome of a request whose requester was looked up
LookedUp == last.op \in ReadOps /\ last.outcome # "no_user"

\* C18: the table is read, and a report or an export made of it, only for a
\* requester whose lookup returned creator or administrator; a request whose
\* lookup raised, or returned another status, is refused and nothing is read
\* or produced for it.
C18_AdminOnly ==
    /\ Fetched => last.status \in {"creator", "administrator"}
    /\ (LookedUp /\ last.status \notin {"creator", "administrator"}) =>
           last.outcome = "denied"

\* an export request was refused because the lookup of its requester raised,
\* on a table that holds rows of the chat
C18_Witness ==
    /\ last.op = "cmd_export"
    /\ last.outcome = "denied"
    /\ last.status = "error"
    /\ \E r \in table : r.chat_id = last.chat_id

-----------------------------------------------------------------------------
(* Properties of last_seen under the handlers *)

\* C19: along the activity, join and leave events the handlers process, each
\* stamped with the handler's clock, and with a clock that never runs
\* backwards, no step lowers the last_seen stored for a (chat_id, user_id).
C19_LastSeenNeverDecreases ==
    [][ \A r \in table : \A s \in table' :
            KeyOf(r) = KeyOf(s) => Val(r.last_seen) <= Val(s.last_seen)
      ]_vars

\* a leave has been recorded over a row of the same key that an earlier
\* event had stamped with an earlier clock
C19_Witness ==
    /\ Applied
    /\ last.op = "left_member_handler"
    /\ \E p \in last.prev : Val(p.last_seen) < last.at
    /\ \E r \in RowsOf(table, last.chat_id, last.user_id) : r.last_seen = Some(last.at)

====
